---- MODULE Spec2Model ----
(***************************************************************************)
(* Model of the swift_too client library: the status envelope (TOOStatus)  *)
(* and the request lifecycle of TOOAPIBaseClass (validate_*, get, put,     *)
(* post, delete) as used by the resource classes VisQuery and              *)
(* SwiftDataFile.                                                          *)
(*                                                                         *)
(* Optional values (Python None or a value) are sequences of length <= 1:  *)
(* None is << >> and a value v is <<v>>.  Messages (error / warning /      *)
(* detail strings) are small integers; equality of integers stands for     *)
(* exact string equality.                                                  *)
(***************************************************************************)
EXTENDS Integers, Sequences, FiniteSets, TLC

\* ---------------------------------------------------------------- bounds
\* Number of distinct caller / server message strings.
NumMsgs == 2
\* Longest recorded history of error() and warning() calls, taken together,
\* on one envelope.
MaxLog == 3
\* Largest number of window entries in a response body.
MaxEntries == 2

\* ------------------------------------------------------------- constants
\* The message "Could not resolve name." recorded by the name setter.
CouldNotResolve == 0

None == << >>
Some(v) == <<v>>

Msgs == 1..NumMsgs

\* Membership of a value in a Python list.
InList(m, l) == \E i \in 1..Len(l) : l[i] = m

\* Lists over a set, up to a length.
RECURSIVE ListsUpTo(_, _)
ListsUpTo(S, n) ==
  IF n = 0 THEN { << >> }
  ELSE LET shorter == ListsUpTo(S, n - 1)
       IN shorter \cup { Append(l, x) : l \in shorter, x \in S }

\* ===================================================== status envelope ==
\* TOOStatus(): the field defaults of a freshly constructed envelope.
TOOStatus ==
  [status |-> "Accepted", too_id |-> None, jobnumber |-> None,
   errors |-> << >>, warnings |-> << >>]

\* Bug variant of error: the message is appended whether or not it is
\* already in the list.
error_NoDedup(s, m) ==
  [s EXCEPT !.errors = Append(@, m), !.status = "Rejected"]

\* TOOStatus.error
error(s, m) ==
  IF ~InList(m, s.errors)
  THEN [s EXCEPT !.errors = Append(@, m), !.status = "Rejected"]
  ELSE s

\* Bug variant of warning: a warning rejects the request like an error.
warning_Rejects(s, m) ==
  IF ~InList(m, s.warnings)
  THEN [s EXCEPT !.warnings = Append(@, m), !.status = "Rejected"]
  ELSE s

\* Bug variant of warning: a new warning marks the request accepted.
warning_Accepts(s, m) ==
  IF ~InList(m, s.warnings)
  THEN [s EXCEPT !.warnings = Append(@, m), !.status = "Accepted"]
  ELSE s

\* TOOStatus.warning
warning(s, m) ==
  IF ~InList(m, s.warnings)
  THEN [s EXCEPT !.warnings = Append(@, m)]
  ELSE s

\* The two states of the protocol.
StatusWords == {"Accepted", "Rejected"}

\* Envelopes that validate against the TOOStatus model (status: str,
\* too_id / jobnumber: Optional[int], errors / warnings: list), as built by
\* TOOStatus(**data) or by model_validate of a response body.
ValidStatus ==
  [status : StatusWords,
   too_id : {None, Some(1)},
   jobnumber : {None, Some(2)},
   errors : ListsUpTo(Msgs, 1),
   warnings : ListsUpTo(Msgs, 1)]


\* ===================================================== resource client ==
\* Resource classes of the library that are modelled.
Classes == {"VisQuery", "SwiftDataFile"}

Verbs == {"GET", "PUT", "POST", "DELETE"}

\* hasattr(self, "_<verb>_schema"): VisQuery declares _schema and
\* _get_schema only; SwiftDataFile declares no schema at all.
HasSchema(c, verb) == c = "VisQuery" /\ verb = "GET"

\* Does the class mix in TOOAPIAutoResolve (a `name` property whose setter
\* resolves the name)?  VisQuery lists "name" in _local_args.
HasAutoResolve(c) == c = "VisQuery"

\* Coordinates returned by a successful name resolution.
ResolvedRA == 83
ResolvedDec == 22

\* Attribute values a caller supplies (keyword arguments or assignment).
RaVals == {10}
DecVals == {20}
BeginVals == {1}
EndVals == {2}
\* Names given as the name keyword, and names assigned afterwards.
KwargNames == {1}
NameVals == {1, 2}

Opt(S) == {None} \cup {Some(v) : v \in S}

\* Constructor keyword arguments (None: the keyword was not given).  A
\* position is given as ra and dec together, a date range as begin and
\* end together.
KwargSets ==
  { kw \in [ra : Opt(RaVals), dec : Opt(DecVals), begin : Opt(BeginVals),
            end : Opt(EndVals), hires : Opt({TRUE}),
            name : Opt(KwargNames)] :
      /\ (kw.ra = None) = (kw.dec = None)
      /\ (kw.begin = None) = (kw.end = None) }

NoKwargs ==
  [ra |-> None, dec |-> None, begin |-> None, end |-> None,
   hires |-> None, name |-> None]

\* Attributes of an instance right after the assignments at the top of
\* VisQuery.__init__ (entries is the number of windows in the list).
NewObject ==
  [ra |-> None, dec |-> None, begin |-> None, end |-> None,
   hires |-> None, name |-> None, entries |-> 0]

DataFields == {"ra", "dec", "begin", "end", "hires", "name", "entries"}

\* The names of the attributes on which two instances differ.
Changed(o1, o2) == {f \in DataFields : o1[f] # o2[f]}

\* The same, with "status" added when the status envelopes differ.
ChangedAll(o1, s1, o2, s2) ==
  Changed(o1, o2) \cup (IF s1 # s2 THEN {"status"} ELSE {})

\* Outcome of the nested Resolve(name).get() call made by the name setter.
ResolveOutcomes == {"found", "failed"}

\* TOOAPIAutoResolve.__name_setter: on a new name, one Resolve GET is sent;
\* ra/dec are taken from it, or "Could not resolve name." is recorded.
name_setter(o, s, sourcename, rr) ==
  IF o.name # Some(sourcename)
  THEN LET o1 == [o EXCEPT !.name = Some(sourcename)]
       IN IF rr = "found"
          THEN [obj |-> [o1 EXCEPT !.ra = Some(ResolvedRA),
                                   !.dec = Some(ResolvedDec)],
                status |-> s, resolves |-> 1]
          ELSE [obj |-> o1, status |-> error(s, CouldNotResolve),
                resolves |-> 1]
  ELSE [obj |-> o, status |-> s, resolves |-> 0]

\* The loop of validate_get that sets attributes from self._kwargs.  The
\* keywords are taken in the order ra, dec, begin, end, hires, name.
set_kwargs(c, o, s, kw, rr) ==
  LET o1 == [o EXCEPT
               !.ra = IF kw.ra # None THEN kw.ra ELSE @,
               !.dec = IF kw.dec # None THEN kw.dec ELSE @,
               !.begin = IF kw.begin # None THEN kw.begin ELSE @,
               !.end = IF kw.end # None THEN kw.end ELSE @,
               !.hires = IF kw.hires # None THEN kw.hires ELSE @]
  IN IF kw.name # None /\ HasAutoResolve(c)
     THEN name_setter(o1, s, kw.name[1], rr)
     ELSE [obj |-> o1, status |-> s, resolves |-> 0]

\* VisQueryGetSchema.model_validate(self.get_params): CoordSchema (ra, dec
\* required and in range), DateRangeSchema ("Begin and end required") and
\* hires: bool (None is not a bool).
VisQueryGetSchema(o) ==
  /\ o.ra # None /\ o.ra[1] >= 0 /\ o.ra[1] < 360
  /\ o.dec # None /\ o.dec[1] >= 0 - 90 /\ o.dec[1] <= 90
  /\ o.begin # None /\ o.end # None
  /\ o.hires # None

\* Bug variant of validate_get: a failed schema check is recorded as an
\* error on the status envelope before the ValidationError is raised.
validate_get_Records(c, o, s, kw, rr) ==
  IF HasSchema(c, "GET")
  THEN LET a == set_kwargs(c, o, s, kw, rr)
       IN IF VisQueryGetSchema(a.obj)
          THEN [obj |-> a.obj, status |-> a.status,
                resolves |-> a.resolves, ok |-> "valid"]
          ELSE [obj |-> a.obj, status |-> error(a.status, 1),
                resolves |-> a.resolves, ok |-> "invalid"]
  ELSE [obj |-> o, status |-> s, resolves |-> 0, ok |-> "notallowed"]

\* TOOAPIBaseClass.validate_get.  ok is "valid" (returns True), "invalid"
\* (ValidationError raised) or "notallowed" (warning, returns False).
validate_get(c, o, s, kw, rr) ==
  IF HasSchema(c, "GET")
  THEN LET a == set_kwargs(c, o, s, kw, rr)
       IN [obj |-> a.obj, status |-> a.status, resolves |-> a.resolves,
           ok |-> IF VisQueryGetSchema(a.obj) THEN "valid" ELSE "invalid"]
  ELSE [obj |-> o, status |-> s, resolves |-> 0, ok |-> "notallowed"]

\* Envelopes a server sends inside a response body.
ServerStatus ==
  [status : StatusWords, too_id : {None}, jobnumber : {None},
   errors : ListsUpTo(Msgs, 1), warnings : {<< >>}]

\* HTTP status codes a response can carry.
Codes == {200, 404, 500}

NoBody == [entries |-> None, status |-> None, hires |-> None, detail |-> None]

\* Decoded JSON bodies: on 200 any subset of the keys entries, status and
\* hires (hires is not a field of VisQuerySchema); otherwise {"detail": d}.
Responses ==
  { [code |-> 200,
     body |-> [entries |-> e, status |-> st, hires |-> h, detail |-> None]] :
       e \in Opt({MaxEntries}), st \in Opt(ServerStatus),
       h \in Opt({FALSE}) }
  \cup
  { [code |-> c, body |-> [NoBody EXCEPT !.detail = Some(d)]] :
       c \in Codes \ {200}, d \in Msgs }

NoResponse == [code |-> 0, body |-> NoBody]

\* VisQuerySchema.model_validate(req.json()): entries and status are
\* required fields.
VisQuerySchema(body) == body.entries # None /\ body.status # None

\* Result of a verb call that never got as far as sending the request.
Unsent(o, s, resolves, ret, notallowed) ==
  [obj |-> o, status |-> s, ret |-> ret, stage |-> "request", sent |-> 0,
   resolves |-> resolves, resp |-> NoResponse, notAllowed |-> notallowed,
   detailWarn |-> None, copied |-> FALSE]

\* The part of get after requests.get returned: v is the outcome of
\* validate_get, resp the response.  200: the body is validated against
\* _schema and its fields are set on the instance; 404: warnings.warn of
\* the detail; otherwise status.error of the detail.
handle_response(v, resp) ==
  LET sent == [obj |-> v.obj, status |-> v.status, ret |-> "False",
               stage |-> "response", sent |-> 1, resolves |-> v.resolves,
               resp |-> resp, notAllowed |-> FALSE, detailWarn |-> None,
               copied |-> FALSE]
  IN CASE resp.code = 200 ->
            IF VisQuerySchema(resp.body)
            THEN [sent EXCEPT !.obj.entries = resp.body.entries[1],
                              !.status = resp.body.status[1],
                              !.ret = "True", !.copied = TRUE]
            ELSE [sent EXCEPT !.ret = "ValidationError"]
       [] resp.code = 404 ->
            [sent EXCEPT !.detailWarn = resp.body.detail]
       [] OTHER ->
            [sent EXCEPT !.status = error(v.status, resp.body.detail[1])]

\* Bug variant of get: a response other than 200 / 404 is retried once.
get_Retry(c, o, s, kw, rr, resp) ==
  LET v == validate_get(c, o, s, kw, rr)
  IN CASE v.ok = "notallowed" -> Unsent(o, s, 0, "False", TRUE)
       [] v.ok = "invalid" ->
            Unsent(v.obj, v.status, v.resolves, "ValidationError", FALSE)
       [] OTHER ->
            IF resp.code \in {200, 404}
            THEN handle_response(v, resp)
            ELSE [handle_response(v, resp) EXCEPT !.sent = 2]

\* Bug variant of get: a 200 response is reported but its fields are not
\* set on the instance.
get_NoCopy(c, o, s, kw, rr, resp) ==
  LET v == validate_get(c, o, s, kw, rr)
  IN CASE v.ok = "notallowed" -> Unsent(o, s, 0, "False", TRUE)
       [] v.ok = "invalid" ->
            Unsent(v.obj, v.status, v.resolves, "ValidationError", FALSE)
       [] OTHER ->
            [handle_response(v, resp) EXCEPT !.obj = v.obj]

\* TOOAPIBaseClass.get
get(c, o, s, kw, rr, resp) ==
  LET v == validate_get(c, o, s, kw, rr)
  IN CASE v.ok = "notallowed" -> Unsent(o, s, 0, "False", TRUE)
       [] v.ok = "invalid" ->
            Unsent(v.obj, v.status, v.resolves, "ValidationError", FALSE)
       [] OTHER -> handle_response(v, resp)

\* Bug variant of the verbs without a schema: the request is sent anyway.
not_allowed_Sends(o, s) ==
  [Unsent(o, s, 0, "False", TRUE) EXCEPT !.sent = 1]

\* put / post / delete of a class without the verb's schema: validate_put /
\* validate_post / validate_del warn "<VERB> not allowed for this class."
\* and return False, and the verb returns False.
not_allowed(o, s) == Unsent(o, s, 0, "False", TRUE)

\* VisQuery.__init__: validate_get() then get(), a ValidationError of
\* either being swallowed.
VisQuery(kw, rr, resp) ==
  LET v == validate_get("VisQuery", NewObject, TOOStatus, kw, rr)
  IN IF v.ok = "valid"
     THEN LET g == get("VisQuery", v.obj, v.status, kw, rr, resp)
          IN [g EXCEPT !.resolves = v.resolves + g.resolves]
     ELSE Unsent(v.obj, v.status, v.resolves, "ValidationError", FALSE)

\* =============================================== write verbs, URL, auth ==
\* TOOAPIBaseClass.get / put / post / delete on a subclass that declares a
\* schema for every verb.  The response schema is SwiftAFSTSchema (entries,
\* afstmax: Optional = None, status); the request schemas declare the
\* fields below (id: int as in SwiftTOOGetSchema / SwiftTOODeleteSchema,
\* username / api_key as in UserSchema, filename: a path field).

\* A piece of a name: its letters (lower-cased) and whether the piece is
\* written with upper-case letters.
Word(w, up) == [w |-> w, up |-> up]

\* API_URL, the fixed root of every request URL.
API_URL == << Word("localhost:8000/api/v1/", FALSE) >>

\* _mission = "Swift"
Mission == << Word("swift", TRUE) >>

\* __class__.__name__ of the subclasses considered: "SwiftTOO", "Calendar".
ClassNames ==
  { << Word("swift", TRUE), Word("too", TRUE) >>,
    << Word("calendar", TRUE) >> }

\* str.lower()
lower(s) == [i \in 1..Len(s) |-> [s[i] EXCEPT !.up = FALSE]]

\* str.replace(m, ''): every occurrence of the one-piece string m is removed.
str_replace(s, m) == SelectSeq(s, LAMBDA t : t # m[1])

\* TOOAPIBaseClass.api_name
api_name(cn) == Mission \o str_replace(cn, Mission)

\* Fields the verb schemas of the subclass declare.
GetFields == {"id", "afstmax"}
PutFields == {"id", "afstmax", "entries"}
PostFields == {"afstmax", "filename", "entries"}
DelFields == {"id", "username", "api_key"}

\* Credentials given as constructor keywords: none, username with api_key,
\* or username with the legacy shared_secret.
CredKwargs ==
  { kw \in [username : Opt({"me"}), api_key : Opt({1}),
            shared_secret : Opt({1})] :
      /\ kw.api_key = None \/ kw.shared_secret = None
      /\ (kw.username = None) = (kw.api_key = None /\ kw.shared_secret = None) }

\* The instance after the assignments of a constructor written like
\* SwiftObservations.__init__: username "anonymous", api_key the class
\* default None, no entries, a fresh status.
NewResource(cn, kw) ==
  [cname |-> cn, id |-> None, afstmax |-> None, entries |-> 0,
   filename |-> None, username |-> Some("anonymous"), api_key |-> None,
   status |-> TOOStatus, kw |-> kw]

NoResource == NewResource(<< >>, [username |-> None, api_key |-> None,
                                   shared_secret |-> None])

\* Variant of api_url: the id segment is never appended.
api_url_NoId(o) ==
  [root |-> API_URL,
   mission |-> lower(Mission),
   name |-> lower(str_replace(api_name(o.cname), Mission)),
   id |-> None]

\* TOOAPIBaseClass.api_url: the id segment is appended when the instance
\* has an id that is not None; the argument dictionary is not consulted.
api_url(o) ==
  [root |-> API_URL,
   mission |-> lower(Mission),
   name |-> lower(str_replace(api_name(o.cname), Mission)),
   id |-> o.id]

\* The kwargs loop of validate_get for the credential keywords: api_key is
\* set, shared_secret is set as api_key; username is neither a field of the
\* GET schema nor in _local_args and is skipped.
set_credentials(o) ==
  [o EXCEPT !.api_key = IF o.kw.api_key # None THEN o.kw.api_key
                        ELSE IF o.kw.shared_secret # None
                             THEN o.kw.shared_secret ELSE @]

\* The auth argument of requests.get: HTTPBasicAuth or None.
basic_auth(o) ==
  /\ o.username # Some("anonymous")
  /\ o.username # None
  /\ o.api_key # None

\* Status envelopes in a response body.
BodyStatus ==
  { TOOStatus, [TOOStatus EXCEPT !.status = "Rejected", !.errors = <<1>>] }

\* HTTP status codes answered to the verbs.
VerbCodes == {200, 201, 202, 404, 500}

NoVerbBody ==
  [entries |-> None, afstmax |-> None, status |-> None, detail |-> None]

\* Decoded JSON bodies: with 200 / 201 a resource body (entries and status,
\* with or without afstmax) or an empty object; with every code but 201
\* {"detail": d}.
VerbResponses ==
  { [code |-> c,
     body |-> [entries |-> Some(MaxEntries), afstmax |-> a,
               status |-> Some(st), detail |-> None]] :
       c \in {200, 201}, a \in Opt({2}), st \in BodyStatus }
  \cup
  { [code |-> c, body |-> NoVerbBody] : c \in {200, 201} }
  \cup
  { [code |-> c, body |-> [NoVerbBody EXCEPT !.detail = Some(d)]] :
       c \in VerbCodes \ {201}, d \in {1} }

\* SwiftAFSTSchema.model_validate(req.json()): entries and status are
\* required, afstmax defaults to None.
SwiftAFSTSchema(body) == body.entries # None /\ body.status # None

\* Variant of copy_back: a field absent from the response keeps its value.
copy_back_Merge(o, body) ==
  [o EXCEPT !.entries = body.entries[1],
            !.afstmax = IF body.afstmax # None THEN body.afstmax ELSE @,
            !.status = body.status[1]]

\* for k, v in self._schema.model_validate(req.json()): setattr(self, k, v)
\* Iterating the validated model yields every field of the schema, the
\* defaulted ones included.
copy_back(o, body) ==
  [o EXCEPT !.entries = body.entries[1],
            !.afstmax = body.afstmax,
            !.status = body.status[1]]

\* requests.Response.raise_for_status raises HTTPError for 4xx and 5xx.
raise_for_status(code) == code >= 400 /\ code < 600

\* A request as sent, before the response is handled: the instance, the
\* verb, the URL, the names of the query parameters, the names of the file
\* parts, the JSON body ("entries", "payload", "empty" or "none") and
\* whether basic credentials are attached.
Sent(o, verb, params, files, json, auth, resp) ==
  [obj |-> o, verb |-> verb, ret |-> "False", sent |-> TRUE,
   url |-> api_url(o), params |-> params, files |-> files, json |-> json,
   auth |-> auth, resp |-> resp, warn |-> None]

\* A verb call that raised ValidationError before any request.
Invalid(o, verb) ==
  [obj |-> o, verb |-> verb, ret |-> "ValidationError", sent |-> FALSE,
   url |-> api_url(o), params |-> {}, files |-> {}, json |-> "none",
   auth |-> FALSE, resp |-> [code |-> 0, body |-> NoVerbBody], warn |-> None]

\* The success branch of every verb: the body is validated against _schema
\* and copied back; an invalid body raises ValidationError.
Copy(r) ==
  IF SwiftAFSTSchema(r.resp.body)
  THEN [r EXCEPT !.obj = copy_back(r.obj, r.resp.body), !.ret = "True"]
  ELSE [r EXCEPT !.ret = "ValidationError"]

\* The failure branch of put and delete: req.raise_for_status(), and
\* `return False` when it does not raise.
Raise(r) ==
  IF raise_for_status(r.resp.code)
  THEN [r EXCEPT !.ret = "HTTPError"]
  ELSE r

\* TOOAPIBaseClass.get on the subclass: validate_get applies the credential
\* keywords; the id goes into the URL and is left out of get_params.
verb_get(o, resp) ==
  LET o1 == set_credentials(o)
      r == Sent(o1, "GET", GetFields \ {"id"}, {}, "none", basic_auth(o1),
                resp)
      d == resp.body.detail
  IN CASE resp.code = 200 -> Copy(r)
       [] resp.code # 200 /\ d = None -> [r EXCEPT !.ret = "KeyError"]
       [] resp.code = 404 /\ d # None -> [r EXCEPT !.warn = d]
       [] OTHER -> [r EXCEPT !.obj.status = error(o1.status, d[1])]

\* TOOAPIBaseClass.put: every field of the PUT schema but entries is a
\* query parameter, id is popped; entries, if any, are the JSON body, else
\* the payload; no auth argument.
put(o, resp) ==
  LET r == Sent(o, "PUT", (PutFields \ {"entries"}) \ {"id"}, {},
                IF o.entries > 0 THEN "entries" ELSE "payload", FALSE, resp)
  IN IF resp.code = 201 THEN Copy(r) ELSE Raise(r)

\* SwiftTOODeleteSchema-like validation: id, username and api_key required.
validate_del(o) == o.id # None /\ o.username # None /\ o.api_key # None

\* TOOAPIBaseClass.delete: every field of the DELETE schema is a query
\* parameter (id included); no auth argument.
delete(o, resp) ==
  IF validate_del(o)
  THEN LET r == Sent(o, "DELETE", DelFields, {}, "none", FALSE, resp)
       IN IF resp.code = 200 THEN Copy(r) ELSE Raise(r)
  ELSE Invalid(o, "DELETE")

\* Variant of post: the entries are sent as JSON next to the file parts.
post_JsonWithFiles(o, resp) ==
  LET files == IF o.filename # None THEN {"filename"} ELSE {}
      r == Sent(o, "POST", (PostFields \ {"entries"}) \ files, files,
                IF o.entries > 0 THEN "entries" ELSE "empty", FALSE, resp)
      d == resp.body.detail
  IN CASE resp.code = 201 -> Copy(r)
       [] resp.code = 200 /\ d # None -> [r EXCEPT !.warn = d]
       [] resp.code = 200 /\ d = None -> [r EXCEPT !.ret = "KeyError"]
       [] OTHER -> Raise(r)

\* TOOAPIBaseClass.post: the fields whose value is a PosixPath are file
\* parts, the other fields but entries are query parameters; without file
\* parts the JSON body is the entries (or {}), with file parts there is no
\* JSON body; no auth argument.
post(o, resp) ==
  LET files == IF o.filename # None THEN {"filename"} ELSE {}
      r == Sent(o, "POST", (PostFields \ {"entries"}) \ files, files,
                IF files # {} THEN "none"
                ELSE IF o.entries > 0 THEN "entries" ELSE "empty",
                FALSE, resp)
      d == resp.body.detail
  IN CASE resp.code = 201 -> Copy(r)
       [] resp.code = 200 /\ d # None -> [r EXCEPT !.warn = d]
       [] resp.code = 200 /\ d = None -> [r EXCEPT !.ret = "KeyError"]
       [] OTHER -> Raise(r)

\* Values the caller assigns to the attributes of the instance.
ResFieldVals(f) ==
  CASE f = "id" -> Opt({7})
    [] f = "afstmax" -> Opt({1})
    [] f = "filename" -> Opt({1})
    [] f = "username" -> Opt({"anonymous", "me"})
    [] f = "api_key" -> Opt({1})

ResFields == {"id", "afstmax", "filename", "username", "api_key"}

\* ---------------------------------------------------------------------
\* Schema validators (base/schema.py, swift/schema.py) as functions of
\* their input. Dates are whole days, lengths whole numbers of days.
\* ---------------------------------------------------------------------

MaxDay == 1
DateVals == 0..MaxDay
LengthVals == {1}

\* How the data reaches a "before" validator: a dict holding only the
\* supplied keys, the dict built by get_params (every field of the schema
\* is a key, None when not set) or an object with attributes.
Forms == {"dict", "params", "object"}

\* Python type of the date values of an input.
DateKinds == {"str", "datetime"}

DateInputs ==
  [form : Forms, kind : DateKinds, begin : Opt(DateVals), end : Opt(DateVals),
   length : Opt(LengthVals)]

\* functions.convert_to_dt raises for this value: a datetime is a date,
\* and its text with " 00:00:00" appended does not parse.
functions_convert_to_dt_Raises(kind, v) == v # None /\ kind = "datetime"

\* Result of a validation: accepted or not, what was raised, the data.
Validated(d) == [ok |-> TRUE, raised |-> "none", data |-> d]
Refused(exc, d) == [ok |-> FALSE, raised |-> exc, data |-> d]

\* `key in data` for the dict forms.
HasKey(d, k) == d.form = "params" \/ d[k] # None

\* DateRangeSchema.check_dates followed by the field validation.
DateRange_check_dates(d) ==
  IF d.form = "object"
  THEN \* data["begin"] on an object
       Refused("TypeError", d)
  ELSE IF \/ HasKey(d, "begin")
             /\ functions_convert_to_dt_Raises(d.kind, d.begin)
          \/ HasKey(d, "end")
             /\ functions_convert_to_dt_Raises(d.kind, d.end)
       THEN Refused("ValidationError", d)
       ELSE IF HasKey(d, "length") /\ HasKey(d, "end") /\ ~HasKey(d, "begin")
            THEN LET b == Some(d.end[1] - d.length[1])
                 IN  Validated([d EXCEPT !.begin = b,
                                         !.length = Some(d.end[1] - b[1])])
            ELSE IF ~HasKey(d, "end") /\ HasKey(d, "begin")
                    /\ HasKey(d, "length")
                 THEN LET e == Some(d.begin[1] + d.length[1])
                      IN  Validated([d EXCEPT !.end = e,
                                              !.length = Some(e[1] - d.begin[1])])
                 ELSE IF ~(HasKey(d, "begin") /\ HasKey(d, "end"))
                      THEN Refused("ValidationError", d)
                      ELSE IF d.begin = None \/ d.end = None
                           THEN Refused("ValidationError", d)
                           ELSE Validated([d EXCEPT !.length =
                                             Some(d.end[1] - d.begin[1])])

\* OptionalDateRangeSchema.check_dates followed by the field validation:
\* the dict forms test the keys, the object form tests for None; nothing
\* is required and the length is never computed.
OptionalDateRange_check_dates(d) ==
  LET absent(k) == IF d.form = "object" THEN d[k] = None ELSE ~HasKey(d, k)
  IN  IF ~absent("length") /\ ~absent("end") /\ absent("begin")
      THEN IF functions_convert_to_dt_Raises(d.kind, d.end)
           THEN Refused("ValidationError", d)
           ELSE Validated([d EXCEPT !.begin = Some(d.end[1] - d.length[1])])
      ELSE IF absent("end") /\ ~absent("begin") /\ ~absent("length")
           THEN IF functions_convert_to_dt_Raises(d.kind, d.begin)
                THEN Refused("ValidationError", d)
                ELSE Validated([d EXCEPT !.end = Some(d.begin[1] + d.length[1])])
           ELSE Validated(d)

\* Python types a coordinate is given in, and the units of a Quantity.
CoordKinds == {"float", "str", "Quantity"}
CoordUnits == {"deg", "arcmin"}
ArcminPerDeg == 60

\* Degrees offered as right ascension and declination.
RaDegrees == {-1, 0, 359, 360, 361}
DecDegrees == {-91, -90, 90, 91}

\* A coordinate of d degrees as given by the caller.
Coord(kind, unit, d) ==
  [kind |-> kind, unit |-> unit,
   v |-> IF kind = "Quantity" /\ unit = "arcmin" THEN d * ArcminPerDeg ELSE d]

\* The kinds and units a pair of coordinates is given in.
CoordTypes ==
  {<<k, "deg">> : k \in CoordKinds} \cup {<<"Quantity", "arcmin">>}

\* functions.coord_convert: a Quantity is converted to degrees, everything
\* else goes through float().
coord_convert(c) ==
  IF c.kind = "Quantity" /\ c.unit = "arcmin" THEN c.v \div ArcminPerDeg
  ELSE c.v

\* Field(ge=0, lt=360) and Field(ge=-90, le=90) of CoordSchema.
CoordSchema(ra, dec) ==
  LET r == coord_convert(ra)
      d == coord_convert(dec)
  IN  IF r >= 0 /\ r < 360 /\ d >= -90 /\ d <= 90
      THEN Validated([ra |-> r, dec |-> d])
      ELSE Refused("ValidationError", [ra |-> r, dec |-> d])

\* Field(ge=0, le=360) and Field(ge=-90, le=90) of SwiftTOOPostSchema and
\* SwiftTOOSchema; these schemas have no convert_coord, float fields take
\* numbers and numeric strings.
SwiftTOOPostSchema(ra, dec) ==
  IF ra.kind = "Quantity" \/ dec.kind = "Quantity"
  THEN Refused("ValidationError", [ra |-> ra.v, dec |-> dec.v])
  ELSE IF ra.v >= 0 /\ ra.v <= 360 /\ dec.v >= -90 /\ dec.v <= 90
       THEN Validated([ra |-> ra.v, dec |-> dec.v])
       ELSE Refused("ValidationError", [ra |-> ra.v, dec |-> dec.v])

\* Values offered to a plan or observation query.
QueryRa == {0, 10}
QueryDec == {0, 20}
QueryIds == {0, 5}
QueryObsid == {5}
QueryRadius == {1}
QueryBegin == {1}

\* The fields of SwiftAFSTGetSchema / SwiftPlanGetSchema as built by
\* get_params.
QueryInputs ==
  [begin : Opt(QueryBegin), ra : Opt(QueryRa), dec : Opt(QueryDec),
   targetid : Opt(QueryIds), obsid : Opt(QueryObsid),
   radius : Opt(QueryRadius)]

\* Python truth value: None and a number 0 are false; a date is true.
Truthy(k, v) == v # None /\ (k = "begin" \/ v[1] # 0)

\* check_all_none: `any(data.values())` has to be true.
check_all_none(d) == \E k \in DOMAIN d : Truthy(k, d[k])

\* OptionalCoordSchema.check_ra_dec
check_ra_dec(d) == (d.ra = None \/ d.dec = None) => d.ra = d.dec

\* SwiftAFSTGetSchema / SwiftPlanGetSchema on the get_params dict: the
\* "before" validator check_all_none, then the "after" validator
\* check_ra_dec.
SwiftAFSTGetSchema(d) ==
  IF ~check_all_none(d) THEN Refused("AtLeastOne", d)
  ELSE IF ~check_ra_dec(d) THEN Refused("RaDec", d)
  ELSE Validated(d)

\* Nothing has been validated yet.
NoValidation ==
  [schema |-> "none", input |-> << >>, out |-> Validated(<< >>)]

\* ---------------------------------------------------------------------
\* Observation identifiers (TargetIdSegment, OptionalSwiftTargetIDSchema).
\* Strings of digits are sequences of digits.
\* ---------------------------------------------------------------------

SegmentShift == 24
TargetIdMask == 2^SegmentShift - 1
\* Largest segment whose spacecraft-format identifier is computed here.
MaxSegment == 127

TargetIds == {0, 34567, TargetIdMask}
Segments == {1, 127, 1000}

RECURSIVE Digits(_)
\* str(n) for n >= 0
Digits(n) == IF n < 10 THEN << n >> ELSE Append(Digits(n \div 10), n % 10)

\* f"{n:0{w}d}": zeros are added on the left up to the width w; a longer
\* number is not cut.
ZeroPad(n, w) ==
  LET s == Digits(n)
  IN  IF Len(s) >= w THEN s ELSE [i \in 1..(w - Len(s)) |-> 0] \o s

RECURSIVE ToInt(_)
\* int(s) for a string of digits
ToInt(s) ==
  IF s = << >> THEN 0 ELSE ToInt(SubSeq(s, 1, Len(s) - 1)) * 10 + s[Len(s)]

\* A TargetIdSegment instance.
NewEntry == [targetid |-> 0, seg |-> 0]

\* TargetIdSegment.obsid: f"{self.targetid:08d}{self.seg:03d}"
obsid(e) == ZeroPad(e.targetid, 8) \o ZeroPad(e.seg, 3)

\* Variant of obsidsc: the segment sits 16 bits up.
obsidsc_Shift16(e) == e.targetid + e.seg * 2^16

\* TargetIdSegment.obsidsc: self.targetid + (self.seg << 24)
obsidsc(e) == e.targetid + e.seg * 2^SegmentShift

\* OptionalSwiftTargetIDSchema.target_id: obsid & 0xFFFFFF
target_id(o) == IF o = None THEN None ELSE Some(o[1] % (TargetIdMask + 1))

\* OptionalSwiftTargetIDSchema.segment: obsid >> 24
segment(o) == IF o = None THEN None ELSE Some(o[1] \div 2^SegmentShift)

\* ---------------------------------------------------------------------
\* Resource instances and the status objects their `status` attribute
\* refers to.
\* ---------------------------------------------------------------------

NumInstances == 2
Instances == 1..NumInstances

\* The TOOStatus() created once in the body of TOOAPIBaseClass.
ClassStatus == 0

\* Classes whose constructor runs `self.status = TOOStatus()`, and classes
\* that define no constructor or one that leaves `status` alone.
AllocatingClasses == {"SwiftObservations", "SAA"}
PlainClasses == {"SwiftDataFile", "SwiftCalendarEntry"}

\* Variant of the status lookup: every instance has its own object.
status_ref_Own(c, i) == i

\* The object `instance.status` refers to after construction: the one the
\* constructor assigned, else the class attribute.
status_ref(c, i) == IF c \in AllocatingClasses THEN i ELSE ClassStatus

\* No instance constructed in a slot.
NoInstance == [cls |-> "", ref |-> ClassStatus]

\* ---------------------------------------------------------------------
\* SwiftData and SwiftCalendar: local validation in the constructor and
\* the download of the listed files.
\* ---------------------------------------------------------------------

\* The longest error list after which the caller still calls validate or
\* download.
MaxErrors == 2

\* The files a listing can name, and the listings a submission returns.
Files == {1, 2}
Listings == {<< >>, <<1>>, <<2, 1>>}

\* What fetching one file can do: the body is written, the server answers
\* with a status that is not ok, or the transfer raises.
FetchOutcomes == {"ok", "http_error", "exception"}

DataObsids == {5}

\* The attributes of a SwiftData the validation and the download read.
\* both_sdc: uksdc and itsdc are both True; products: at least one of
\* auxil, xrt, log, bat, uvot, subthresh is True.
DataParams ==
  [obsid : Opt(DataObsids), both_sdc : BOOLEAN, products : BOOLEAN,
   clobber : BOOLEAN, quiet : BOOLEAN]

\* The parameters the validation accepts.
DataParamsValid(p) == ~p.both_sdc /\ p.obsid # None /\ p.products

BothSdcError == "Cannot download from UK and Italian SDC"
NoObsidError == "Must supply Observation ID"
NoProductsError == "No data products selected"
NoDataError(o) ==
  IF o = None THEN "No data found for None." ELSE "No data found for 5."
DownloadError(f) ==
  IF f = 1 THEN "Error downloading file1" ELSE "Error downloading file2"
TooIdError == "TOO ID is not set."

\* TOOStatus.clear(): back to the initial envelope.
clear(s) == TOOStatus

\* A SwiftData after the assignments of its constructor.
SwiftData(p) ==
  [cls |-> "SwiftData", obsid |-> p.obsid, both_sdc |-> p.both_sdc, products |-> p.products,
   clobber |-> p.clobber, quiet |-> p.quiet,
   entries |-> << >>, status |-> TOOStatus]

\* The parameters of a SwiftData.
ParamsOf(d) ==
  [obsid |-> d.obsid, both_sdc |-> d.both_sdc, products |-> d.products,
   clobber |-> d.clobber, quiet |-> d.quiet]

\* Variant of SwiftData.validate: nothing is tested.
SwiftData_validate_Accepts(d) ==
  [ok |-> TRUE, status |-> d.status]

\* SwiftData.validate: records an error per failed test, then answers by
\* the length of the error list.
SwiftData_validate(d) ==
  LET s1 == IF d.both_sdc THEN error(d.status, BothSdcError) ELSE d.status
      s2 == IF d.obsid = None THEN error(s1, NoObsidError) ELSE s1
      s3 == IF ~d.products
            THEN [error(s2, NoProductsError) EXCEPT !.status = "Rejected"]
            ELSE s2
  IN  [ok |-> Len(s3.errors) = 0, status |-> s3]

\* SwiftData.submit: the listing the service returns becomes the entries.
SwiftData_submit(d, listing) == [d EXCEPT !.entries = listing]

\* SwiftDataFile.download of file f: the file is written and True
\* returned, False returned, or the exception of the transfer propagates.
SwiftDataFile_download(f, outcome, disk) ==
  CASE outcome = "ok" ->
         [ret |-> TRUE, raised |-> FALSE, disk |-> disk \cup {f}]
    [] outcome = "http_error" ->
         [ret |-> FALSE, raised |-> FALSE, disk |-> disk]
    [] OTHER ->
         [ret |-> FALSE, raised |-> TRUE, disk |-> disk]

\* The loop of SwiftData.download over the remaining entries.
RECURSIVE download_loop(_, _, _, _)
download_loop(d, rest, outc, r) ==
  IF rest = << >> THEN [r EXCEPT !.ret = TRUE]
  ELSE
    LET f == Head(rest)
    IN  IF ~d.clobber /\ f \in r.disk /\ ~d.quiet
        THEN download_loop(d, Tail(rest), outc,
                           [r EXCEPT !.warned = @ \cup {f}])
        ELSE
          LET got == SwiftDataFile_download(f, outc[f], r.disk)
              a == [r EXCEPT !.attempted = Append(@, f), !.disk = got.disk]
          IN  IF got.raised THEN [a EXCEPT !.raised = TRUE, !.failed = Some(f)]
              ELSE IF ~got.ret
              THEN [a EXCEPT !.status = error(@, DownloadError(f)),
                             !.failed = Some(f)]
              ELSE download_loop(d, Tail(rest), outc, a)

\* SwiftData.download: the envelope, the files on disk, the files fetched
\* in order, the file whose fetch failed, the return value and whether an
\* exception left the call.
SwiftData_download(d, disk, outc) ==
  LET r0 == [status |-> d.status, disk |-> disk, attempted |-> << >>,
             warned |-> {}, failed |-> None, ret |-> FALSE,
             raised |-> FALSE]
  IN  IF Len(d.entries) = 0
      THEN [r0 EXCEPT !.status =
              [error(@, NoDataError(d.obsid)) EXCEPT !.status = "Rejected"]]
      ELSE download_loop(d, d.entries, outc, r0)

\* The arguments of a SwiftCalendar the validation reads.
CalendarParams ==
  [too_id : Opt({1}), length : Opt({1}), ra : Opt({0}), dec : Opt({0}),
   targetid : Opt({1})]

CalendarParamsValid(p) ==
  \/ p.too_id # None
  \/ p.length # None
  \/ (p.ra # None /\ p.dec # None)
  \/ p.targetid # None

\* SwiftCalendar.validate
SwiftCalendar_validate(c) ==
  IF CalendarParamsValid(c.params)
  THEN [ok |-> TRUE, status |-> c.status]
  ELSE [ok |-> FALSE, status |-> error(c.status, TooIdError)]

\* A SwiftCalendar after the assignments of its constructor.
SwiftCalendar(p) ==
  [cls |-> "SwiftCalendar", params |-> p, status |-> TOOStatus]

\* No SwiftData or SwiftCalendar constructed yet.
NoData == [cls |-> "", status |-> TOOStatus]

\* ---------------------------------------------------------------------
\* swiftdatetime: a calendar value with a time-base flag (UTC or Swift
\* time), an optional UTC correction factor and two cached projections.
\* Calendar values are whole seconds since 2001-01-01.
\* ---------------------------------------------------------------------

MaxTime == 1
TimeVals == 0..MaxTime
DeltaVals == {1}
UtcfVals == {1}

\* swiftdatetime.__init__ without keywords: the flag is False and not yet
\* marked as set, no offset, no cached projection.
swiftdatetime(v) ==
  [dt |-> v, isutc |-> FALSE, isutc_set |-> FALSE, utcf |-> None,
   c_swifttime |-> None, c_utctime |-> None]

NoTime == swiftdatetime(0)

\* Outcome of an operation on a value: the value afterwards, what was
\* returned and what was raised.
Outcome(t, val, raised) == [t |-> t, val |-> val, raised |-> raised]

\* Variant of the isutc setter: every assignment is accepted.
isutc_setter_Always(t, utc) ==
  Outcome([t EXCEPT !.isutc = utc, !.c_swifttime = None, !.c_utctime = None,
                    !.isutc_set = TRUE], None, "none")

\* swiftdatetime.isutc setter: accepted while the flag is not marked as
\* set (flag assigned, both caches reset, mark set); refused afterwards.
isutc_setter(t, utc) ==
  IF ~t.isutc_set
  THEN Outcome([t EXCEPT !.isutc = utc, !.c_swifttime = None,
                         !.c_utctime = None, !.isutc_set = TRUE],
               None, "none")
  ELSE Outcome(t, None, "AttributeError")

\* swiftdatetime.utctime getter: the cached value; else the calendar value
\* for a UTC value; else, with an offset, the Swift time plus the offset
\* (the swifttime getter caches the calendar value on the way); else None.
utctime(t) ==
  IF t.c_utctime # None THEN Outcome(t, t.c_utctime, "none")
  ELSE IF t.isutc
       THEN Outcome([t EXCEPT !.c_utctime = Some(t.dt)], Some(t.dt), "none")
       ELSE IF t.utcf # None
            THEN LET sw == IF t.c_swifttime # None THEN t.c_swifttime
                           ELSE Some(t.dt)
                     u == Some(sw[1] + t.utcf[1])
                 IN  Outcome([t EXCEPT !.c_swifttime = sw, !.c_utctime = u],
                             u, "none")
            ELSE Outcome(t, None, "none")

\* swiftdatetime.swifttime getter: the mirror image of utctime.
swifttime(t) ==
  IF t.c_swifttime # None THEN Outcome(t, t.c_swifttime, "none")
  ELSE IF ~t.isutc
       THEN Outcome([t EXCEPT !.c_swifttime = Some(t.dt)], Some(t.dt), "none")
       ELSE IF t.utcf # None
            THEN LET u == utctime(t)
                     sw == Some(u.val[1] - t.utcf[1])
                 IN  Outcome([u.t EXCEPT !.c_swifttime = sw], sw, "none")
            ELSE Outcome(t, None, "none")

\* swiftdatetime(..., isutc=utc): __init__ passes the keyword to the setter.
swiftdatetime_isutc(v, utc) == isutc_setter(swiftdatetime(v), utc).t

\* swiftdatetime.frommet: the calendar value is the MET, moved by the
\* offset for a UTC value; then utcf and isutc are assigned.
frommet(met, utcf, utc) ==
  LET dt == IF utc /\ utcf # None THEN met + utcf[1] ELSE met
      ret == [swiftdatetime(dt) EXCEPT !.utcf = utcf]
  IN  isutc_setter(ret, utc).t

\* convert_to_dt(string, isutc, outfunc=swiftdatetime): the parsed value;
\* the flag is assigned only if it differs from the requested one.
convert_to_dt(v, utc) ==
  LET dtvalue == swiftdatetime(v)
  IN  IF dtvalue.isutc # utc THEN isutc_setter(dtvalue, utc).t ELSE dtvalue

\* Variant of __add__: the result is a copy of the operand moved by the
\* duration, offset and caches included.
add_Copy(t, d) == [t EXCEPT !.dt = t.dt + d]

\* swiftdatetime.__add__ with a duration: datetime's sum constructs a new
\* swiftdatetime, whose flag is then assigned from the operand.
add(t, d) == isutc_setter(swiftdatetime(t.dt + d), t.isutc).t

\* swiftdatetime.__sub__ with a duration.
sub_delta(t, d) == isutc_setter(swiftdatetime(t.dt - d), t.isutc).t

\* Variant of __sub__: the stored values are subtracted whatever the time
\* bases are.
sub_Plain(a, b) ==
  [a |-> a, b |-> b, val |-> Some(a.dt - b.dt), raised |-> "none"]

\* swiftdatetime.__sub__ with another swiftdatetime: a, b are the operands
\* afterwards (the getters cache), val the difference in seconds.
sub(a, b) ==
  LET ua == utctime(a)
      ub == utctime(b)
  IN  IF a.isutc # b.isutc
      THEN IF ua.val = None
           THEN [a |-> ua.t, b |-> b, val |-> None,
                 raised |-> "ArithmeticError"]
           ELSE IF ub.val = None
                THEN [a |-> ua.t, b |-> ub.t, val |-> None,
                      raised |-> "ArithmeticError"]
                ELSE IF a.isutc
                     THEN [a |-> ua.t, b |-> ub.t,
                           val |-> Some(a.dt - ub.val[1]), raised |-> "none"]
                     ELSE [a |-> ua.t, b |-> ub.t,
                           val |-> Some(ua.val[1] - ub.val[1]),
                           raised |-> "none"]
      ELSE [a |-> a, b |-> b, val |-> Some(a.dt - b.dt), raised |-> "none"]

\* The two values the model works on.
Slots == {1, 2}

VARIABLES
  status,     \* the status envelope of the resource (a TOOStatus)
  op,         \* last envelope operation: name, argument, envelope before
  errBase,    \* errors list the envelope was created with
  warnBase,   \* warnings list the envelope was created with
  errLog,     \* messages passed to error() since the envelope was created
  warnLog,    \* messages passed to warning() since the envelope was created
  cls,        \* class of the resource instance ("" before construction)
  kwargs,     \* self._kwargs
  obj,        \* data attributes of the instance
  call,       \* observation of the last verb call / constructor run
  res,        \* instance of the subclass that declares every verb
  req,        \* observation of the last verb call on res
  tm,         \* the swiftdatetime values, by slot
  tcall,      \* observation of the last operation on a swiftdatetime
  validation, \* observation of the last schema validation
  entry,      \* a TargetIdSegment instance
  heap,       \* the TOOStatus objects, by identity
  inst,       \* the resource instances: class and status object
  icall,      \* observation of the last operation on an instance
  data,       \* the SwiftData or SwiftCalendar the caller holds
  disk,       \* the files present under the output directory
  dcall       \* observation of the last operation on data or cal

logVars == <<op, errBase, warnBase, errLog, warnLog>>
resVars == <<cls, kwargs, obj, call>>
verbVars == <<res, req>>
timeVars == <<tm, tcall>>
schemaVars == <<validation, entry>>
instVars == <<heap, inst, icall>>
dataVars == <<data, disk, dcall>>
extVars == <<schemaVars, instVars, dataVars>>
vars == <<status, op, errBase, warnBase, errLog, warnLog, cls, kwargs, obj, call,
          res, req, tm, tcall, validation,
          entry, heap, inst, icall, data, disk, dcall>>

NoOp == [name |-> "none", arg |-> 0, pre |-> TOOStatus]

\* No verb has been called yet.
NoCall ==
  [verb |-> "none", ret |-> "none", stage |-> "request", sent |-> 0,
   resolves |-> 0, resp |-> NoResponse, notAllowed |-> FALSE,
   detailWarn |-> None, copied |-> FALSE, changed |-> {},
   schemaOk |-> FALSE, after |-> TOOStatus]

\* No verb has been called on res yet.
NoRequest ==
  [Invalid(NoResource, "none") EXCEPT !.ret = "none"] @@ [pre |-> NoResource]

\* No operation on a SwiftData or SwiftCalendar yet.
NoDataCall ==
  [op |-> "none", valid |-> FALSE, ret |-> FALSE, raised |-> FALSE, submitted |-> FALSE,
   attempted |-> << >>, failed |-> None, preDisk |-> {}]

\* No operation on an instance yet.
NoInstCall ==
  [op |-> "none", i |-> 1, m |-> 0,
   pre |-> [i \in Instances |-> TOOStatus]]

\* No operation on a swiftdatetime yet.
NoTimeCall ==
  [op |-> "none", i |-> 1, j |-> 1, arg |-> None, pre |-> [k \in Slots |-> NoTime],
   val |-> None, raised |-> "none"]

Init ==
  /\ status = TOOStatus
  /\ op = NoOp
  /\ errBase = << >>
  /\ warnBase = << >>
  /\ errLog = << >>
  /\ warnLog = << >>
  /\ cls = ""
  /\ kwargs = NoKwargs
  /\ obj = NewObject
  /\ call = NoCall
  /\ res = NoResource
  /\ req = NoRequest
  /\ tm = [k \in Slots |-> NoTime]
  /\ tcall = NoTimeCall
  /\ validation = NoValidation
  /\ entry = NewEntry
  /\ heap = [k \in {ClassStatus} \cup Instances |-> TOOStatus]
  /\ inst = [i \in Instances |-> NoInstance]
  /\ icall = NoInstCall
  /\ data = NoData
  /\ disk = {}
  /\ dcall = NoDataCall

\* ------------------------------------------ actions on the envelope ----
\* A new envelope replaces the old one: TOOStatus(**data).
NewStatus(e) ==
  /\ status' = e
  /\ op' = [name |-> "new", arg |-> 0, pre |-> e]
  /\ errBase' = e.errors
  /\ warnBase' = e.warnings
  /\ errLog' = << >>
  /\ warnLog' = << >>
  /\ UNCHANGED resVars
  /\ UNCHANGED <<verbVars, timeVars, extVars>>

\* The copy-back of a 200 response: setattr(self, "status", v) with the
\* envelope v validated from the body replaces the old envelope.
CopyBack(e) ==
  /\ status' = e
  /\ op' = [name |-> "copyback", arg |-> 0, pre |-> status]
  /\ errBase' = e.errors
  /\ warnBase' = e.warnings
  /\ errLog' = << >>
  /\ warnLog' = << >>
  /\ UNCHANGED resVars
  /\ UNCHANGED <<verbVars, timeVars, extVars>>

\* status.error(m)
Error(m) ==
  /\ Len(errLog) + Len(warnLog) < MaxLog
  /\ status' = error(status, m)
  /\ op' = [name |-> "error", arg |-> m, pre |-> status]
  /\ errLog' = Append(errLog, m)
  /\ UNCHANGED <<errBase, warnBase, warnLog>>
  /\ UNCHANGED resVars
  /\ UNCHANGED <<verbVars, timeVars, extVars>>

\* status.warning(m)
Warning(m) ==
  /\ Len(errLog) + Len(warnLog) < MaxLog
  /\ status' = warning(status, m)
  /\ op' = [name |-> "warning", arg |-> m, pre |-> status]
  /\ warnLog' = Append(warnLog, m)
  /\ UNCHANGED <<errBase, warnBase, errLog>>
  /\ UNCHANGED resVars
  /\ UNCHANGED <<verbVars, timeVars, extVars>>

NextStatus ==
  \/ \E e \in ValidStatus : NewStatus(e)
  \/ \E e \in ServerStatus : CopyBack(e)
  \/ \E m \in Msgs : Error(m)
  \/ \E m \in Msgs : Warning(m)

\* The status envelope on its own.
SpecStatus == Init /\ [][NextStatus]_vars

\* ------------------------------------------ actions on the resource ----
\* Will applying the keyword arguments look the name up?  The outcome rr of
\* a lookup is drawn only when one is made.
WillResolve(c, o, kw) ==
  HasSchema(c, "GET") /\ HasAutoResolve(c) /\ kw.name # None /\ o.name # kw.name

\* The observation of a verb call: its result r, started from (obj, status).
Observe(verb, r) ==
  [verb |-> verb, ret |-> r.ret, stage |-> r.stage, sent |-> r.sent,
   resolves |-> r.resolves, resp |-> r.resp, notAllowed |-> r.notAllowed,
   detailWarn |-> r.detailWarn, copied |-> r.copied,
   changed |-> ChangedAll(obj, status, r.obj, r.status),
   schemaOk |-> VisQueryGetSchema(r.obj), after |-> r.status]

\* q = VisQuery(**kw)
ConstructVisQuery(kw, rr, resp) ==
  /\ cls = ""
  /\ ~WillResolve("VisQuery", NewObject, kw) => rr = "found"
  /\ LET r == VisQuery(kw, rr, resp)
     IN /\ cls' = "VisQuery"
        /\ kwargs' = kw
        /\ obj' = r.obj
        /\ status' = r.status
        /\ call' = [Observe("init", r) EXCEPT
                      !.changed = ChangedAll(NewObject, TOOStatus,
                                             r.obj, r.status)]
  /\ UNCHANGED logVars
  /\ UNCHANGED <<verbVars, timeVars, extVars>>

\* f = SwiftDataFile(): no constructor logic, no schema.
ConstructDataFile ==
  /\ cls = ""
  /\ cls' = "SwiftDataFile"
  /\ UNCHANGED <<kwargs, obj, status, call>>
  /\ UNCHANGED logVars
  /\ UNCHANGED <<verbVars, timeVars, extVars>>

\* The caller assigns an attribute between calls.
SetField(f, v) ==
  /\ cls # ""
  /\ obj' = [obj EXCEPT ![f] = v]
  /\ call' = [NoCall EXCEPT !.verb = "set", !.after = status]
  /\ UNCHANGED <<cls, kwargs, status>>
  /\ UNCHANGED logVars
  /\ UNCHANGED <<verbVars, timeVars, extVars>>

\* The caller assigns resource.name: the property setter resolves the name.
SetName(n, rr) ==
  /\ cls # ""
  /\ HasAutoResolve(cls)
  /\ obj.name = Some(n) => rr = "found"
  /\ LET r == name_setter(obj, status, n, rr)
     IN /\ obj' = r.obj
        /\ status' = r.status
        /\ call' = [NoCall EXCEPT !.verb = "set", !.after = r.status]
  /\ UNCHANGED <<cls, kwargs>>
  /\ UNCHANGED logVars
  /\ UNCHANGED <<verbVars, timeVars, extVars>>

\* resource.get()
Get(rr, resp) ==
  /\ cls # ""
  /\ ~WillResolve(cls, obj, kwargs) => rr = "found"
  /\ LET r == get(cls, obj, status, kwargs, rr, resp)
     IN /\ obj' = r.obj
        /\ status' = r.status
        /\ call' = Observe("GET", r)
  /\ UNCHANGED <<cls, kwargs>>
  /\ UNCHANGED logVars
  /\ UNCHANGED <<verbVars, timeVars, extVars>>

\* resource.put() / post() / delete() on a class without that schema.
NotAllowed(verb) ==
  /\ cls # ""
  /\ ~HasSchema(cls, verb)
  /\ LET r == not_allowed(obj, status)
     IN /\ obj' = r.obj
        /\ status' = r.status
        /\ call' = Observe(verb, r)
  /\ UNCHANGED <<cls, kwargs>>
  /\ UNCHANGED logVars
  /\ UNCHANGED <<verbVars, timeVars, extVars>>

\* The attributes the caller assigns in the model, and the values.
SettableFields == {"ra"}

FieldVals(f) ==
  CASE f = "ra" -> Opt(RaVals)

Next ==
  \/ \E kw \in KwargSets, rr \in ResolveOutcomes, resp \in Responses :
       ConstructVisQuery(kw, rr, resp)
  \/ ConstructDataFile
  \/ \E f \in SettableFields : \E v \in FieldVals(f) : SetField(f, v)
  \/ \E n \in NameVals, rr \in ResolveOutcomes : SetName(n, rr)
  \/ \E rr \in ResolveOutcomes, resp \in Responses : Get(rr, resp)
  \/ \E verb \in Verbs \ {"GET"} : NotAllowed(verb)

Spec == Init /\ [][Next]_vars

\* ================================================== checked properties ==
\* Positions of a message in a list.
Positions(m, l) == {i \in 1..Len(l) : l[i] = m}

\* Position of the first occurrence of a message that is in the list.
FirstPos(m, l) == CHOOSE i \in Positions(m, l) : \A j \in Positions(m, l) : i <= j

\* The list holds every message of the history exactly once and nothing
\* else, ordered by first occurrence in the history.
OnceInOrder(l, history) ==
  /\ \A i \in 1..Len(history) : Cardinality(Positions(history[i], l)) = 1
  /\ \A i \in 1..Len(l) : InList(l[i], history)
  /\ \A i, j \in 1..Len(l) :
       i < j => FirstPos(l[i], history) < FirstPos(l[j], history)

\* C1 (as claimed): after any call error(m), whatever the envelope held
\* before, the status of the envelope is "Rejected".
C1_ErrorForcesRejected ==
  op.name = "error" => status.status = "Rejected"

\* C2: the error list and the warning list hold every message passed to
\* error() / warning() since the envelope was created (after the messages it
\* was created with) exactly once, in order of first insertion.
C2_IdempotentAppend ==
  /\ OnceInOrder(status.errors, errBase \o errLog)
  /\ OnceInOrder(status.warnings, warnBase \o warnLog)

\* C2 witness: error() was called three times on a fresh envelope, the first
\* and the third time with the same message, and two errors are listed.
C2_Witness ==
  /\ op.name = "error"
  /\ errBase = << >>
  /\ Len(errLog) = 3
  /\ errLog[1] = errLog[3]
  /\ errLog[1] # errLog[2]
  /\ Len(status.errors) = 2

\* C3: warning(m) leaves status, errors, too_id and jobnumber as they were;
\* the warning list keeps its old content as a prefix.
C3_WarningFrame ==
  op.name = "warning" =>
    /\ status.status = op.pre.status
    /\ status.errors = op.pre.errors
    /\ status.too_id = op.pre.too_id
    /\ status.jobnumber = op.pre.jobnumber
    /\ Len(status.warnings) >= Len(op.pre.warnings)
    /\ SubSeq(status.warnings, 1, Len(op.pre.warnings)) = op.pre.warnings

\* C3 witness: a new warning was added to an accepted envelope that carries
\* a too_id and a jobnumber, and to a rejected one that carries errors.
C3_Witness ==
  /\ op.name = "warning"
  /\ Len(status.warnings) = Len(op.pre.warnings) + 1
  /\ status.too_id # None
  /\ status.jobnumber # None
  /\ status.errors # << >>

IsGetCall == call.verb \in {"GET", "init"} /\ ~call.notAllowed

\* The call failed the local (request) validation.
LocalValidationFailed ==
  IsGetCall /\ call.ret = "ValidationError" /\ call.stage = "request"

C6_InvalidIsRejected ==
  LocalValidationFailed => call.after.status = "Rejected"

\* C6 (amended): a failed local validation records nothing: the status
\* envelope is changed only by a name that could not be resolved, and a
\* visibility query constructed without any argument ends as a fresh
\* envelope ("Accepted", no errors), no request sent.
C6_InvalidLeavesStatus ==
  LocalValidationFailed =>
    /\ call.sent = 0
    /\ call.resolves = 0 => "status" \notin call.changed
    /\ "status" \in call.changed =>
         InList(CouldNotResolve, call.after.errors)
    /\ (call.verb = "init" /\ kwargs = NoKwargs) => call.after = TOOStatus

\* C6 witness: a visibility query constructed without arguments failed the
\* validation and is "Accepted".
C6_Witness ==
  /\ LocalValidationFailed
  /\ call.verb = "init"
  /\ kwargs = NoKwargs
  /\ status.status = "Accepted"
  /\ status.errors = << >>

\* C7: a verb for which the class declares no schema returns False, warns
\* "not allowed", raises nothing, sends nothing and changes no attribute.
C7_NotAllowed ==
  (call.verb \in Verbs /\ ~HasSchema(cls, call.verb)) =>
    /\ call.ret = "False"
    /\ call.notAllowed
    /\ call.sent = 0
    /\ call.resolves = 0
    /\ call.changed = {}

\* C7 witness: PUT was called on a visibility query whose ra the caller
\* had set.
C7_Witness ==
  /\ cls = "VisQuery"
  /\ call.verb = "PUT"
  /\ call.notAllowed
  /\ obj.ra # kwargs.ra

\* A GET was sent and answered with the status code.
Answered(code) == IsGetCall /\ call.sent = 1 /\ call.resp.code = code

\* C8 (as claimed): a GET answered with 200 returns True and every field
\* present in the body is on the instance afterwards.
C8_CopiesEveryField ==
  Answered(200) =>
    /\ call.ret = "True"
    /\ call.resp.body.entries # None =>
         call.resp.body.entries = Some(obj.entries)
    /\ call.resp.body.status # None =>
         call.resp.body.status = Some(call.after)
    /\ call.resp.body.hires # None => obj.hires = call.resp.body.hires

\* C8 (amended): a GET answered with 200 whose body validates against the
\* response schema returns True and sets the schema's fields (entries,
\* status) from the body; a key the schema does not declare is ignored; a
\* body that does not validate raises ValidationError and sets nothing.
\* With two window entries and an accepted status in the body the instance
\* has two entries and status "Accepted".
C8_CopiesSchemaFields ==
  Answered(200) =>
    IF VisQuerySchema(call.resp.body)
    THEN /\ call.ret = "True"
         /\ call.copied
         /\ obj.entries = call.resp.body.entries[1]
         /\ call.after = call.resp.body.status[1]
         /\ obj.hires # call.resp.body.hires
    ELSE /\ call.ret = "ValidationError"
         /\ call.stage = "response"
         /\ ~call.copied
         /\ "entries" \notin call.changed
         /\ call.resolves = 0 => "status" \notin call.changed

\* C8 witness: a 200 body with the entries, an accepted status and an
\* undeclared key was copied.
C8_Witness ==
  /\ Answered(200)
  /\ call.ret = "True"
  /\ obj.entries = MaxEntries
  /\ call.after.status = "Accepted"
  /\ call.resp.body.hires # None

\* C9 (as claimed): a GET answered with 404 and {"detail": d} returns
\* False, warns with d, raises nothing, does not reject the resource and
\* overwrites no attribute of the instance.
C9_NotFoundChangesNothing ==
  (Answered(404) /\ call.verb = "GET") =>
    /\ call.ret = "False"
    /\ call.detailWarn = call.resp.body.detail
    /\ call.changed = {}

\* C10 (as claimed): a GET answered with a status other than 200 and 404
\* has the detail in the status errors, status "Rejected", returns False
\* and raises nothing.
C10_OtherStatusRejects ==
  (IsGetCall /\ call.sent = 1 /\ call.resp.code \notin {200, 404}) =>
    /\ call.ret = "False"
    /\ InList(call.resp.body.detail[1], call.after.errors)
    /\ call.after.status = "Rejected"

\* A get() call that got as far as validation and did not return True.
FailedGet == call.verb = "GET" /\ ~call.notAllowed /\ call.ret # "True"

\* C11 (as claimed): after every failed call (local validation failure,
\* 404, other non-success status, invalid response body) the data fields of
\* the resource are exactly as they were before the call.
C11_FailureChangesNoField ==
  FailedGet => call.changed \cap DataFields = {}

\* -------------------------------- actions on the subclass with all verbs --
\* The observation of a verb call r made on res.
ObserveVerb(r) == r @@ [pre |-> res]

\* res = Subclass(**kw)
ConstructResource(cn, kw) ==
  /\ res = NoResource
  /\ res' = NewResource(cn, kw)
  /\ req' = [NoRequest EXCEPT !.pre = NewResource(cn, kw),
                              !.obj = NewResource(cn, kw)]
  /\ UNCHANGED <<status, logVars, resVars, timeVars, extVars>>

\* The caller assigns an attribute of res.
SetRes(f, v) ==
  /\ res # NoResource
  /\ res' = [res EXCEPT ![f] = v]
  /\ req' = [NoRequest EXCEPT !.pre = res', !.obj = res']
  /\ UNCHANGED <<status, logVars, resVars, timeVars, extVars>>

\* The caller replaces the entries of res.
SetEntries(n) ==
  /\ res # NoResource
  /\ res' = [res EXCEPT !.entries = n]
  /\ req' = [NoRequest EXCEPT !.pre = res', !.obj = res']
  /\ UNCHANGED <<status, logVars, resVars, timeVars, extVars>>

\* A verb call on res, answered with resp.
Call(r) ==
  /\ res # NoResource
  /\ res' = r.obj
  /\ req' = ObserveVerb(r)
  /\ UNCHANGED <<status, logVars, resVars, timeVars, extVars>>

DoGet(resp) == Call(verb_get(res, resp))
DoPut(resp) == Call(put(res, resp))
DoPost(resp) == Call(post(res, resp))
DoDelete(resp) == Call(delete(res, resp))

NextVerbs ==
  \/ \E cn \in ClassNames, kw \in CredKwargs : ConstructResource(cn, kw)
  \/ \E f \in ResFields : \E v \in ResFieldVals(f) : SetRes(f, v)
  \/ \E n \in {0, MaxEntries} : SetEntries(n)
  \/ \E resp \in VerbResponses : DoGet(resp)
  \/ \E resp \in VerbResponses : DoPut(resp)
  \/ \E resp \in VerbResponses : DoPost(resp)
  \/ \E resp \in VerbResponses : DoDelete(resp)

\* The verbs of TOOAPIBaseClass on a subclass that declares every schema.
SpecVerbs == Init /\ [][NextVerbs]_vars

\* A verb call on res that ended with a copy-back.
CopiedBack == req.sent /\ req.ret = "True"

\* C12 (as claimed): after a successful copy-back every field absent from
\* the response has its old value on the instance.
C12_AbsentFieldKeepsValue ==
  (CopiedBack /\ req.resp.body.afstmax = None) =>
    res.afstmax = req.pre.afstmax

\* C12 (amended): a successful copy-back sets every field of the response
\* schema: entries and status from the body, afstmax from the body or, when
\* the body has none, to the schema default None; the attributes the
\* response schema does not declare keep their values.
C12_SchemaFieldsOverwritten ==
  CopiedBack =>
    /\ res.entries = req.resp.body.entries[1]
    /\ res.status = req.resp.body.status[1]
    /\ res.afstmax = req.resp.body.afstmax
    /\ res.id = req.pre.id
    /\ res.filename = req.pre.filename
    /\ res.username = req.pre.username
    /\ res.cname = req.pre.cname
    /\ req.verb # "GET" => res.api_key = req.pre.api_key

\* C12 witness: a PUT answered 201 without afstmax reset the afstmax the
\* caller had set.
C12_Witness ==
  /\ CopiedBack
  /\ req.verb = "PUT"
  /\ req.resp.body.afstmax = None
  /\ req.pre.afstmax # None
  /\ res.afstmax = None

\* The status code on which the verb copies the response back.
SuccessCode(verb) == IF verb \in {"PUT", "POST"} THEN 201 ELSE 200

\* C13 (as claimed): a PUT answered 201 and a DELETE answered 200 copy the
\* response and return True; with any other status the call raises the
\* transport error.
C13_PutDeleteRaiseOtherwise ==
  (req.sent /\ req.verb \in {"PUT", "DELETE"}) =>
    IF req.resp.code = SuccessCode(req.verb)
    THEN SwiftAFSTSchema(req.resp.body) => req.ret = "True"
    ELSE req.ret = "HTTPError"

\* C14 (as claimed): a POST answered 201 copies the response and returns
\* True; answered 200 with a detail it warns with the detail, returns False
\* and leaves the status and the fields alone; with any other status the
\* call raises.
C14_PostByStatusCode ==
  (req.sent /\ req.verb = "POST") =>
    CASE req.resp.code = 201 ->
           SwiftAFSTSchema(req.resp.body) => req.ret = "True"
      [] req.resp.code = 200 ->
           req.resp.body.detail # None =>
             /\ req.ret = "False"
             /\ req.warn = req.resp.body.detail
             /\ res = req.pre
      [] OTHER -> req.ret = "HTTPError"

\* C15: a POST of an instance with a file field is sent with exactly that
\* one file part, the other declared fields but entries as query
\* parameters and no JSON body; a POST without a file field sends the
\* entries (or {}) as JSON body and no file part.
C15_PostMultipart ==
  (req.sent /\ req.verb = "POST") =>
    IF req.pre.filename # None
    THEN /\ req.files = {"filename"}
         /\ req.params = PostFields \ {"entries", "filename"}
         /\ req.json = "none"
    ELSE /\ req.files = {}
         /\ req.params = PostFields \ {"entries"}
         /\ req.json = IF req.pre.entries > 0 THEN "entries" ELSE "empty"

\* C15 witness: a POST with a file and no entries went out as one file
\* part.
C15_Witness ==
  /\ req.sent
  /\ req.verb = "POST"
  /\ req.pre.filename # None
  /\ req.pre.entries = 0
  /\ req.files = {"filename"}
  /\ req.json = "none"

\* The letters of a name, piece by piece.
Letters(s) == [i \in 1..Len(s) |-> s[i].w]

\* The root, the mission and the resource name of the URL are the fixed
\* root, "swift" and the class name without "Swift", in lower case.
UrlNameOk ==
  /\ req.url.root = API_URL
  /\ Letters(req.url.mission) = << "swift" >>
  /\ Letters(req.url.name) =
       SelectSeq(Letters(req.pre.cname), LAMBDA w : w # "swift")
  /\ \A i \in 1..Len(req.url.mission) : ~req.url.mission[i].up
  /\ \A i \in 1..Len(req.url.name) : ~req.url.name[i].up

\* C16 (as claimed): the URL is root / mission / resource name; the id
\* segment is appended for PUT and DELETE and not for GET and POST; PUT
\* removes the id from the query parameters.
C16_IdSegmentForPutDelete ==
  req.sent =>
    /\ UrlNameOk
    /\ req.verb \in {"PUT", "DELETE"} => req.url.id = req.pre.id
    /\ req.verb \in {"GET", "POST"} => req.url.id = None
    /\ req.verb = "PUT" => "id" \notin req.params

\* C16 (amended): the URL is root / mission / resource name; the id segment
\* is appended for every verb exactly when the instance has an id that is
\* not None; GET and PUT leave the id out of the query parameters, DELETE
\* sends it as a query parameter as well.
C16_IdSegmentWheneverSet ==
  req.sent =>
    /\ UrlNameOk
    /\ req.url.id = req.pre.id
    /\ req.verb \in {"GET", "PUT"} => "id" \notin req.params
    /\ req.verb = "DELETE" => "id" \in req.params

\* C16 witness: a GET of an instance named SwiftTOO with an id carried the
\* id segment.
C16_Witness ==
  /\ req.sent
  /\ req.verb = "GET"
  /\ req.url.id # None
  /\ Len(req.pre.cname) = 2
  /\ Letters(req.url.name) = << "too" >>

\* C17 (as claimed): a call of any verb attaches basic credentials exactly
\* when the username is set and not "anonymous" and the api key is set, the
\* credentials given as constructor keywords (shared_secret for api_key
\* included) counting as set.
C17_AuthWhenCredentials ==
  req.sent =>
    /\ req.auth = basic_auth(req.obj)
    /\ (req.verb = "GET" /\ req.pre.kw.username # None
          /\ req.pre.username = Some("anonymous")) => req.auth

\* ---------------------------------------------------------------------
\* Operations on swiftdatetime values.
\* ---------------------------------------------------------------------

\* Record an operation: slots i (and j) afterwards, what it gave.
TimeStep(name, i, j, arg, ti, tj, val, raised) ==
  /\ tm' = [tm EXCEPT ![i] = ti, ![j] = tj]
  /\ tcall' = [op |-> name, i |-> i, j |-> j, arg |-> arg, pre |-> tm,
               val |-> val, raised |-> raised]
  /\ UNCHANGED <<status, logVars, resVars, verbVars, extVars>>

\* t = swiftdatetime(y, m, d, ...)
NewTime(i, v) ==
  TimeStep("new", i, i, None, swiftdatetime(v), swiftdatetime(v), None, "none")

\* t = swiftdatetime(y, m, d, ..., isutc=utc)
NewTimeIsutc(i, v, utc) ==
  LET t == swiftdatetime_isutc(v, utc)
  IN  TimeStep("new_isutc", i, i, Some(utc), t, t, None, "none")

\* t = swiftdatetime.frommet(met, utcf, isutc)
FromMet(i, met, utcf, utc) ==
  LET t == frommet(met, utcf, utc)
  IN  TimeStep("frommet", i, i, Some(utc), t, t, None, "none")

\* t = convert_to_dt("YYYY-MM-DD HH:MM:SS", isutc, swiftdatetime)
ConvertToDt(i, v, utc) ==
  LET t == convert_to_dt(v, utc)
  IN  TimeStep("convert_to_dt", i, i, Some(utc), t, t, None, "none")

\* t.isutc = utc
SetIsutc(i, utc) ==
  LET r == isutc_setter(tm[i], utc)
  IN  TimeStep("set_isutc", i, i, Some(utc), r.t, r.t, None, r.raised)

\* t.utcf = u
SetUtcf(i, u) ==
  LET t == [tm[i] EXCEPT !.utcf = u]
  IN  TimeStep("set_utcf", i, i, None, t, t, None, "none")

\* t.utctime
ReadUtctime(i) ==
  LET r == utctime(tm[i])
  IN  TimeStep("utctime", i, i, None, r.t, r.t, r.val, "none")

\* t.swifttime
ReadSwifttime(i) ==
  LET r == swifttime(tm[i])
  IN  TimeStep("swifttime", i, i, None, r.t, r.t, r.val, "none")

\* tm[j] = tm[i] + timedelta(seconds=d)
Add(i, j, d) ==
  /\ i # j
  /\ tm[i].dt + d <= MaxTime
  /\ TimeStep("add", i, j, Some(d), tm[i], add(tm[i], d), None, "none")

\* tm[j] = tm[i] - timedelta(seconds=d)
SubDelta(i, j, d) ==
  /\ i # j
  /\ tm[i].dt - d >= 0
  /\ TimeStep("sub_delta", i, j, Some(d), tm[i], sub_delta(tm[i], d), None,
              "none")

\* tm[i] - tm[j]
Sub(i, j) ==
  /\ i # j
  /\ LET r == sub(tm[i], tm[j])
     IN  TimeStep("sub", i, j, None, r.a, r.b, r.val, r.raised)

NextTime ==
  \/ \E i \in Slots, v \in TimeVals : NewTime(i, v)
  \/ \E i \in Slots, v \in TimeVals, utc \in BOOLEAN : NewTimeIsutc(i, v, utc)
  \/ \E i \in Slots, met \in TimeVals, utcf \in Opt(UtcfVals),
        utc \in BOOLEAN : FromMet(i, met, utcf, utc)
  \/ \E i \in Slots, v \in TimeVals, utc \in BOOLEAN : ConvertToDt(i, v, utc)
  \/ \E i \in Slots, utc \in BOOLEAN : SetIsutc(i, utc)
  \/ \E i \in Slots, u \in Opt(UtcfVals) : SetUtcf(i, u)
  \/ \E i \in Slots : ReadUtctime(i)
  \/ \E i \in Slots : ReadSwifttime(i)
  \/ \E i \in Slots, j \in Slots, d \in DeltaVals : Add(i, j, d)
  \/ \E i \in Slots, j \in Slots, d \in DeltaVals : SubDelta(i, j, d)
  \/ \E i \in Slots, j \in Slots : Sub(i, j)

SpecTime == Init /\ [][NextTime]_vars

\* The flag and its set-mark of slot k are as before the operation.
FlagKept(k) ==
  /\ tm[k].isutc = tcall.pre[k].isutc
  /\ tm[k].isutc_set = tcall.pre[k].isutc_set

\* C18: the time-base flag is set at most once. A value built from calendar
\* fields (or converted with the default base) has the flag unset; one built
\* with the isutc keyword, by frommet, by a conversion to UTC or as the
\* result of adding or subtracting a duration has it set. An assignment to
\* an unset flag succeeds, sets the flag and clears the cached projections;
\* an assignment to a set flag raises AttributeError and leaves the value
\* (flag and cached projections) as it was; no other operation changes or
\* unsets the flag.
C18_IsutcSetOnce ==
  LET i == tcall.i
      j == tcall.j
      before == tcall.pre[i]
  IN  CASE tcall.op = "set_isutc" ->
             IF before.isutc_set
             THEN tcall.raised = "AttributeError" /\ tm[i] = before
             ELSE /\ tcall.raised = "none"
                  /\ tm[i].isutc = tcall.arg[1]
                  /\ tm[i].isutc_set
                  /\ tm[i].c_swifttime = None
                  /\ tm[i].c_utctime = None
        [] tcall.op = "new" -> ~tm[i].isutc_set /\ ~tm[i].isutc
        [] tcall.op \in {"new_isutc", "frommet"} ->
             tm[i].isutc_set /\ tm[i].isutc = tcall.arg[1]
        [] tcall.op = "convert_to_dt" ->
             tm[i].isutc = tcall.arg[1] /\ tm[i].isutc_set = tcall.arg[1]
        [] tcall.op \in {"add", "sub_delta"} ->
             tm[j].isutc_set /\ tm[j].isutc = before.isutc /\ FlagKept(i)
        [] tcall.op \in {"set_utcf", "utctime", "swifttime", "sub"} ->
             FlagKept(i) /\ FlagKept(j)
        [] OTHER -> TRUE

\* C18 witness: a second assignment of the flag, with the other value, was
\* refused and the cached projections are still there.
C18_Witness ==
  /\ tcall.op = "set_isutc"
  /\ tcall.raised = "AttributeError"
  /\ tcall.arg[1] # tm[tcall.i].isutc
  /\ tm[tcall.i].c_utctime # None
  /\ tm[tcall.i].c_swifttime # None
  /\ tm[tcall.i] = tcall.pre[tcall.i]

\* C19: the difference of two swiftdatetime values in the same time base
\* is the difference of their calendar values; in different time bases it
\* is the difference of their UTC projections when both have one and an
\* ArithmeticError when either has none, which for values without cached
\* projection is the case exactly when the Swift-time operand has no
\* offset.
C19_SubtractNeedsCommonBase ==
  tcall.op = "sub" =>
    LET a == tcall.pre[tcall.i]
        b == tcall.pre[tcall.j]
        ua == utctime(a).val
        ub == utctime(b).val
    IN  IF a.isutc = b.isutc
        THEN tcall.raised = "none" /\ tcall.val = Some(a.dt - b.dt)
        ELSE /\ IF ua = None \/ ub = None
                THEN tcall.raised = "ArithmeticError" /\ tcall.val = None
                ELSE /\ tcall.raised = "none"
                     /\ tcall.val = Some(ua[1] - ub[1])
             /\ (a.c_utctime = None /\ b.c_utctime = None
                   /\ a.c_swifttime = None /\ b.c_swifttime = None) =>
                  ((tcall.raised = "ArithmeticError") <=>
                     (IF a.isutc THEN b.utcf = None ELSE a.utcf = None))

\* C19 witness: a UTC value minus a Swift-time value with an offset gave
\* the difference of the UTC projections, not of the calendar values.
C19_Witness ==
  /\ tcall.op = "sub"
  /\ tcall.raised = "none"
  /\ tcall.pre[tcall.i].isutc
  /\ ~tcall.pre[tcall.j].isutc
  /\ tcall.pre[tcall.j].utcf # None
  /\ tcall.val # Some(tcall.pre[tcall.i].dt - tcall.pre[tcall.j].dt)

\* C20: a swiftdatetime plus a duration is a new swiftdatetime moved by
\* the duration, with the operand's time-base flag, no offset and no cached
\* projection; the operand is left as it was.
C20_AddKeepsFlagDropsOffset ==
  tcall.op = "add" =>
    LET t == tcall.pre[tcall.i]
        sum == tm[tcall.j]
    IN  /\ sum.dt = t.dt + tcall.arg[1]
        /\ sum.isutc = t.isutc
        /\ sum.utcf = None
        /\ sum.c_swifttime = None
        /\ sum.c_utctime = None
        /\ tm[tcall.i] = t

\* C20 witness: a duration was added to a UTC value that had an offset and
\* cached projections; the sum is UTC and has neither.
C20_Witness ==
  /\ tcall.op = "add"
  /\ tcall.pre[tcall.i].isutc
  /\ tcall.pre[tcall.i].utcf # None
  /\ tcall.pre[tcall.i].c_utctime # None
  /\ tcall.pre[tcall.i].c_swifttime # None
  /\ tm[tcall.j].isutc
  /\ tm[tcall.j].utcf = None
  /\ tm[tcall.j].c_utctime = None

\* C21 (as claimed): every read of a projection gives, in the value's own
\* time base, the stored calendar value; in the other time base nothing
\* when the offset is unknown and otherwise the value that satisfies
\* UTC = Swift time + the current offset.
C21_ProjectionsFollowUtcf ==
  LET t == tcall.pre[tcall.i]
  IN  /\ tcall.op = "utctime" =>
           tcall.val = IF t.isutc THEN Some(t.dt)
                       ELSE IF t.utcf = None THEN None
                       ELSE Some(t.dt + t.utcf[1])
      /\ tcall.op = "swifttime" =>
           tcall.val = IF ~t.isutc THEN Some(t.dt)
                       ELSE IF t.utcf = None THEN None
                       ELSE Some(t.dt - t.utcf[1])

\* ---------------------------------------------------------------------
\* Schema validations.
\* ---------------------------------------------------------------------

\* Record a validation: the schema, the input and the outcome.
Validate(schema, input, out) ==
  /\ validation' = [schema |-> schema, input |-> input, out |-> out]
  /\ UNCHANGED <<status, logVars, resVars, verbVars, timeVars, entry>>
  /\ UNCHANGED <<instVars, dataVars>>

\* DateRangeSchema.model_validate(d)
ValidateDateRange(d) ==
  Validate("DateRangeSchema", d, DateRange_check_dates(d))

\* OptionalDateRangeSchema.model_validate(d)
ValidateOptionalDateRange(d) ==
  Validate("OptionalDateRangeSchema", d, OptionalDateRange_check_dates(d))

\* How many of begin, end and length an input supplies.
Supplied(d) ==
  Cardinality({k \in {"begin", "end", "length"} : d[k] # None})

\* C22 (as claimed): a date-range input that supplies two of begin, end
\* and length is accepted with the third derived so that end - begin is the
\* length; an input that supplies fewer than two is refused.
C22_TwoOfThreeDeriveThird ==
  validation.schema \in {"DateRangeSchema", "OptionalDateRangeSchema"} =>
    LET d == validation.input
        r == validation.out
    IN  /\ Supplied(d) = 2 =>
             /\ r.ok
             /\ r.data.begin # None /\ r.data.end # None
             /\ r.data.length # None
             /\ r.data.end[1] - r.data.begin[1] = r.data.length[1]
             /\ \A k \in {"begin", "end", "length"} :
                   d[k] # None => r.data[k] = d[k]
        /\ Supplied(d) < 2 => ~r.ok

\* CoordSchema.model_validate({"ra": ra, "dec": dec})
ValidateCoord(ra, dec) ==
  Validate("CoordSchema", [ra |-> ra, dec |-> dec], CoordSchema(ra, dec))

\* SwiftTOOPostSchema.model_validate({"ra": ra, "dec": dec, ...})
ValidateTOOPost(ra, dec) ==
  Validate("SwiftTOOPostSchema", [ra |-> ra, dec |-> dec],
           SwiftTOOPostSchema(ra, dec))

\* SwiftAFSTGetSchema.model_validate(get_params)
ValidateQuery(d) == Validate("SwiftAFSTGetSchema", d, SwiftAFSTGetSchema(d))

\* The degrees an input stands for.
Degrees(c) ==
  IF c.kind = "Quantity" /\ c.unit = "arcmin" THEN c.v \div ArcminPerDeg
  ELSE c.v

\* C23 (as claimed): every schema with coordinates accepts exactly the
\* inputs with 0 <= ra < 360 and -90 <= dec <= 90, and the accepted value
\* is the given one.
C23_CoordinatesInRange ==
  validation.schema \in {"CoordSchema", "SwiftTOOPostSchema"} =>
    LET r == validation.out
    IN  r.ok => /\ r.data.ra >= 0 /\ r.data.ra < 360
                /\ r.data.dec >= -90 /\ r.data.dec <= 90
                /\ r.data.ra = Degrees(validation.input.ra)
                /\ r.data.dec = Degrees(validation.input.dec)

\* The query parameters of a plan or observation query.
QueryParameters == {"begin", "ra", "dec", "targetid", "obsid"}

\* C24 (as claimed): a query passes the at-least-one rule exactly when one
\* of begin, ra, dec, target id, observation id is not None, and is
\* accepted only with ra and dec both set or both unset.
C24_AtLeastOneParameter ==
  validation.schema = "SwiftAFSTGetSchema" =>
    LET d == validation.input
        r == validation.out
    IN  /\ (r.raised # "AtLeastOne") <=>
             (\E k \in QueryParameters : d[k] # None)
        /\ r.ok => ((d.ra = None) <=> (d.dec = None))

\* entry.targetid = t; entry.seg = g
SetTarget(t, g) ==
  /\ entry' = [targetid |-> t, seg |-> g]
  /\ validation' = [NoValidation EXCEPT !.schema = "set"]
  /\ UNCHANGED <<status, logVars, resVars, verbVars, timeVars, instVars,
               dataVars>>

\* entry.obsid
ReadObsid ==
  Validate("obsid", entry, Validated([obsid |-> obsid(entry)]))

\* entry.obsidsc, and target_id / segment of a query for that value
ReadObsidsc ==
  /\ entry.seg <= MaxSegment
  /\ LET sc == obsidsc(entry)
     IN  Validate("obsidsc", entry,
                  Validated([obsidsc |-> sc, target_id |-> target_id(Some(sc)),
                             segment |-> segment(Some(sc))]))

\* target_id / segment of a query without obsid
ReadNoObsid ==
  Validate("no_obsid", entry,
           Validated([obsidsc |-> None, target_id |-> target_id(None),
                      segment |-> segment(None)]))

NextSchema ==
  \/ \E t \in TargetIds, g \in Segments : SetTarget(t, g)
  \/ ReadObsid
  \/ ReadObsidsc
  \/ ReadNoObsid
  \/ \E d \in DateInputs : ValidateDateRange(d)
  \/ \E d \in DateInputs : ValidateOptionalDateRange(d)
  \/ \E t \in CoordTypes, ra \in RaDegrees, dec \in DecDegrees :
        ValidateCoord(Coord(t[1], t[2], ra), Coord(t[1], t[2], dec))
  \/ \E t \in CoordTypes, ra \in RaDegrees, dec \in DecDegrees :
        ValidateTOOPost(Coord(t[1], t[2], ra), Coord(t[1], t[2], dec))
  \/ \E d \in QueryInputs : ValidateQuery(d)

SpecSchema == Init /\ [][NextSchema]_vars

\* The spacecraft-format identifier splits back into the target id and
\* the segment it was read from.
ObsidscSplits ==
  validation.schema = "obsidsc" =>
    LET e == validation.input
        r == validation.out.data
    IN  /\ r.obsidsc = e.targetid + e.seg * 16777216
        /\ r.target_id = Some(e.targetid)
        /\ r.segment = Some(e.seg)

\* C30 (as claimed): the spacecraft-format identifier splits back into
\* the target id and the segment, and the SDC-format string is always 8
\* digits of target id followed by 3 digits of segment, both read from the
\* current target id and segment.
C30_ObsidEightPlusThree ==
  /\ ObsidscSplits
  /\ validation.schema = "obsid" =>
       LET e == validation.input
           s == validation.out.data.obsid
       IN  /\ Len(s) = 11
           /\ ToInt(SubSeq(s, 1, 8)) = e.targetid
           /\ ToInt(SubSeq(s, 9, 11)) = e.seg

\* C30 (amended): the spacecraft-format identifier splits back into the
\* target id and the segment; the SDC-format string is the target id
\* padded with zeros to 8 digits followed by the segment padded with zeros
\* to at least 3 digits (a segment of 1000 or more takes all its digits);
\* both are computed from the target id and segment the instance has when
\* it is read.
C30_ObsidDerivedView ==
  /\ ObsidscSplits
  /\ validation.schema \in {"obsid", "obsidsc"} => validation.input = entry
  /\ validation.schema = "obsid" =>
       LET e == validation.input
           s == validation.out.data.obsid
       IN  /\ Len(s) = 8 + (IF e.seg < 1000 THEN 3 ELSE Len(Digits(e.seg)))
           /\ ToInt(SubSeq(s, 1, 8)) = e.targetid
           /\ ToInt(SubSeq(s, 9, Len(s))) = e.seg

\* C30 witness: the largest target id with segment 127 gave 2^31 - 1 and
\* split back.
C30_Witness ==
  /\ validation.schema = "obsidsc"
  /\ validation.input = [targetid |-> TargetIdMask, seg |-> 127]
  /\ validation.out.data.obsidsc = 2147483647
  /\ validation.out.data.target_id = Some(TargetIdMask)
  /\ validation.out.data.segment = Some(127)

\* ---------------------------------------------------------------------
\* Instances and their status envelopes.
\* ---------------------------------------------------------------------

\* The envelope seen through instance i.
StatusOf(i) == heap[inst[i].ref]

\* Record an operation on instance i with the envelopes seen before it.
InstStep(name, i, m) ==
  /\ icall' = [op |-> name, i |-> i, m |-> m,
               pre |-> [k \in Instances |-> StatusOf(k)]]
  /\ UNCHANGED <<status, logVars, resVars, verbVars, timeVars, schemaVars,
                 dataVars>>

\* x = C(): the constructor of C assigns a fresh TOOStatus() or none.
ConstructInstance(i, c) ==
  /\ inst[i].cls = ""
  /\ LET r == status_ref(c, i)
     IN  /\ inst' = [inst EXCEPT ![i] = [cls |-> c, ref |-> r]]
         /\ heap' = IF r = i THEN [heap EXCEPT ![i] = TOOStatus] ELSE heap
  /\ InstStep("new", i, 0)

\* x.status.error(m)
InstError(i, m) ==
  /\ inst[i].cls # ""
  /\ heap' = [heap EXCEPT ![inst[i].ref] = error(@, m)]
  /\ UNCHANGED inst
  /\ InstStep("error", i, m)

\* x.status.warning(m)
InstWarning(i, m) ==
  /\ inst[i].cls # ""
  /\ heap' = [heap EXCEPT ![inst[i].ref] = warning(@, m)]
  /\ UNCHANGED inst
  /\ InstStep("warning", i, m)

NextInstances ==
  \/ \E i \in Instances, c \in AllocatingClasses \cup PlainClasses :
        ConstructInstance(i, c)
  \/ \E i \in Instances, m \in Msgs : InstError(i, m)
  \/ \E i \in Instances, m \in Msgs : InstWarning(i, m)

SpecInstances == Init /\ [][NextInstances]_vars

\* C25 (as claimed): every constructed instance starts with a fresh
\* envelope of its own, and an error or warning recorded through one
\* instance leaves the envelope seen through every other instance as it
\* was.
C25_OwnStatusEnvelope ==
  /\ icall.op = "new" => StatusOf(icall.i) = TOOStatus
  /\ icall.op \in {"error", "warning"} =>
       \A k \in Instances \ {icall.i} :
          inst[k].cls # "" => StatusOf(k) = icall.pre[k]

\* ---------------------------------------------------------------------
\* SwiftData and SwiftCalendar: construction, validation, download.
\* ---------------------------------------------------------------------

DataStep(c) ==
  /\ dcall' = c
  /\ UNCHANGED <<status, logVars, resVars, verbVars, timeVars, schemaVars,
                 instVars>>

\* d = SwiftData(**p) with fetch=False, the first object the caller
\* constructs: validate, then submit, or clear the envelope.
NewSwiftData(p, listing) ==
  LET d0 == SwiftData(p)
      v == SwiftData_validate(d0)
      d1 == SwiftData_submit([d0 EXCEPT !.status = v.status], listing)
  IN  /\ data.cls = ""
      /\ data' = IF v.ok THEN d1 ELSE [d0 EXCEPT !.status = clear(v.status)]
      /\ disk' = disk
      /\ DataStep([NoDataCall EXCEPT !.op = "new", !.submitted = v.ok,
                     !.valid = DataParamsValid(p), !.preDisk = disk])

\* d = SwiftData(**p) with fetch=True (the default): as above, and the
\* listed files are downloaded.  An exception leaves the caller with the
\* object it held.
NewSwiftDataFetch(p, listing, outc) ==
  LET d0 == SwiftData(p)
      v == SwiftData_validate(d0)
      d1 == SwiftData_submit([d0 EXCEPT !.status = v.status], listing)
      r == SwiftData_download(d1, disk, outc)
  IN  /\ data.cls = ""
      /\ IF ~v.ok
         THEN /\ data' = [d0 EXCEPT !.status = clear(v.status)]
              /\ disk' = disk
              /\ DataStep([NoDataCall EXCEPT !.op = "new",
                             !.valid = DataParamsValid(p), !.preDisk = disk])
         ELSE /\ data' = IF r.raised THEN data
                         ELSE [d1 EXCEPT !.status = r.status]
              /\ disk' = r.disk
              /\ DataStep([op |-> "new", valid |-> DataParamsValid(p),
                           ret |-> r.ret, raised |-> r.raised,
                           submitted |-> TRUE, attempted |-> r.attempted,
                           failed |-> r.failed, preDisk |-> disk])

\* d.obsid = ..., d.uksdc = ..., d.clobber = ...: attribute assignment.
SetDataParams(p) ==
  /\ data.cls = "SwiftData"
  /\ p # ParamsOf(data)
  /\ data' = [data EXCEPT !.obsid = p.obsid, !.both_sdc = p.both_sdc,
                          !.products = p.products, !.clobber = p.clobber,
                          !.quiet = p.quiet]
  /\ disk' = disk
  /\ DataStep([NoDataCall EXCEPT !.op = "set", !.preDisk = disk])

\* d.validate()
DataValidate ==
  /\ data.cls = "SwiftData"
  /\ Len(data.status.errors) <= MaxErrors
  /\ LET v == SwiftData_validate(data)
     IN  /\ data' = [data EXCEPT !.status = v.status]
         /\ disk' = disk
         /\ DataStep([NoDataCall EXCEPT !.op = "validate", !.ret = v.ok,
                        !.valid = DataParamsValid(ParamsOf(data)),
                        !.preDisk = disk])

\* d.download()
DataDownload(outc) ==
  /\ data.cls = "SwiftData"
  /\ Len(data.status.errors) <= MaxErrors
  /\ LET r == SwiftData_download(data, disk, outc)
     IN  /\ data' = [data EXCEPT !.status = r.status]
         /\ disk' = r.disk
         /\ DataStep([op |-> "download",
                      valid |-> DataParamsValid(ParamsOf(data)),
                      ret |-> r.ret, raised |-> r.raised,
                      submitted |-> FALSE, attempted |-> r.attempted,
                      failed |-> r.failed, preDisk |-> disk])

\* c = SwiftCalendar(**p): validate, then submit, or clear the envelope.
NewSwiftCalendar(p) ==
  LET c0 == SwiftCalendar(p)
      v == SwiftCalendar_validate(c0)
  IN  /\ data.cls = ""
      /\ data' = IF v.ok THEN [c0 EXCEPT !.status = v.status]
                 ELSE [c0 EXCEPT !.status = clear(v.status)]
      /\ disk' = disk
      /\ DataStep([NoDataCall EXCEPT !.op = "new", !.submitted = v.ok,
                     !.valid = CalendarParamsValid(p), !.preDisk = disk])

NextData ==
  \/ \E p \in DataParams, listing \in Listings : NewSwiftData(p, listing)
  \/ \E p \in DataParams, listing \in Listings,
        outc \in [Files -> FetchOutcomes] :
        NewSwiftDataFetch(p, listing, outc)
  \/ \E p \in DataParams : SetDataParams(p)
  \/ DataValidate
  \/ \E outc \in [Files -> FetchOutcomes] : DataDownload(outc)
  \/ \E p \in CalendarParams : NewSwiftCalendar(p)

SpecData == Init /\ [][NextData]_vars

RECURSIVE InListOrder(_, _)
InListOrder(a, l) ==
  IF a = << >> THEN TRUE
  ELSE IF l = << >> THEN FALSE
  ELSE IF Head(a) = Head(l) THEN InListOrder(Tail(a), Tail(l))
  ELSE InListOrder(a, Tail(l))

\* C27 (as claimed): download() fetches the entries in list order; a file
\* that fails to fetch leaves an error naming it, status 'Rejected' and
\* the return value False, and nothing is raised; with no entries an error
\* is recorded, the status is 'Rejected', False is returned and nothing
\* is fetched.
C27_DownloadReportsFailure ==
  dcall.op = "download" =>
     /\ ~dcall.raised
     /\ InListOrder(dcall.attempted, data.entries)
     /\ dcall.failed # None =>
          /\ InList(DownloadError(dcall.failed[1]), data.status.errors)
          /\ data.status.status = "Rejected"
          /\ ~dcall.ret
     /\ data.entries = << >> =>
          /\ InList(NoDataError(data.obsid), data.status.errors)
          /\ data.status.status = "Rejected"
          /\ ~dcall.ret
          /\ dcall.attempted = << >>

\* C28 (as claimed): with clobber False, download() fetches no file that
\* was already present, whatever quiet is.
C28_NoClobberKeepsFiles ==
  (dcall.op = "download" /\ ~data.clobber) =>
     \A f \in dcall.preDisk : ~InList(f, dcall.attempted)

\* C29 (as claimed): validate() on parameters that pass every test
\* returns True, whatever was recorded before.
C29_ValidateReadsParametersOnly ==
  (dcall.op = "validate" /\ dcall.valid) => dcall.ret

====
